---- MODULE Spec2Model ----
(***************************************************************************)
(* Model of the TPRM assistant (ikuomoladeji/ai-sandbox-v2).               *)
(*                                                                         *)
(* Five specifications share the module:                                   *)
(*   SpecStore  - save_vendor_db / load_vendor_db at the granularity of    *)
(*                their file-system steps, with process crashes;           *)
(*   SpecClient - OllamaClient.generate, one action per loop step;         *)
(*   SpecFlow   - the menu workflows (DDQ, metadata edit, quick            *)
(*                assessment, acceptance, contract, bulk import), each a   *)
(*                whole handler run over the vendor store and history log. *)
(*   SpecMain   - main: the start-up checks and the menu loop around the   *)
(*                workflows, from a configuration and store files drawn    *)
(*                from sets;                                               *)
(*   SpecCalc   - the pure classifiers applied to bounded inputs.          *)
(* Scores are integers in hundredths (4.00 is 400).  Names are sequences   *)
(* of one-character strings so that validation and sanitisation are        *)
(* computed, not assumed.                                                  *)
(***************************************************************************)
EXTENDS Integers, Sequences, FiniteSets, TLC

VARIABLES
    primary,    \* data/vendors.json
    backup,     \* data/vendors.json.backup
    pc,         \* SpecStore: position of the process inside save_vendor_db
    arg,        \* SpecStore: the db argument of the running save_vendor_db
    before,     \* SpecStore: the primary file when the running/last save began
    fault,      \* SpecStore: the step of the running/last save that failed
    saveRes,    \* SpecStore: how the last save_vendor_db call ended
    lastSaved,  \* SpecStore: the db of the last save that returned normally
    loaded,     \* SpecStore: result of the last load_vendor_db (until the disk changes)
    connection_verified,  \* OllamaClient._connection_verified
    gpc,        \* SpecClient: position inside OllamaClient.generate
    attempt,    \* generate: the loop variable
    retry_delay,\* generate: the current back-off delay, seconds
    outcomes,   \* generate: what each POST of the running/last call met
    sleeps,     \* generate: the time.sleep calls of the running/last call
    gres,       \* generate: how the last call ended
    history,    \* history/ : file name -> the record snapshot it holds
    now,        \* the wall clock, in seconds
    nops,       \* SpecFlow: workflows run so far
    last,       \* SpecFlow: what the last workflow run did
    snaps,      \* SpecFlow: snapshot_history calls that returned so far
    mpc,        \* main: "start" before the checks, "menu" in the loop, "exited"
    cfg,        \* Config.RISK_THRESHOLD_LOW / RISK_THRESHOLD_MEDIUM, hundredths
    exit_code,  \* the status the process exited with, -1 while it runs
    boot,       \* the store files as they were when the process started
    calc        \* SpecCalc: the last function application, inputs and result

storeVars == <<primary, backup, pc, arg, before, fault, saveRes, lastSaved, loaded>>

clientVars == <<connection_verified, gpc, attempt, retry_delay, outcomes, sleeps, gres>>

flowVars == <<history, now, nops, last, snaps>>

mainVars == <<mpc, cfg, exit_code, boot>>

calcVars == <<calc>>

vars == <<storeVars, clientVars, flowVars, mainVars, calcVars>>

---------------------------------------------------------------------------
(* Bounds                                                                  *)

\* number of distinct non-empty databases handed to save_vendor_db in SpecStore
MaxGen == 2

\* SpecFlow: number of workflow runs in a behaviour
MaxOps == 2

\* SpecFlow: seconds the clock can advance
MaxClock == 1

\* SpecFlow: rows of an imported sheet
MaxRows == 2

---------------------------------------------------------------------------
(* Files and databases                                                     *)

\* {} : the dict load_vendor_db returns for a fresh install
EmptyDb == <<>>

\* A file of the data directory: absent, holding the JSON text of db ("ok"),
\* holding text that json.loads rejects ("corrupt": an empty or truncated
\* write), or present but failing in read_text ("unreadable": an I/O or
\* decoding error, which is not a JSONDecodeError).
Absent == [st |-> "absent", db |-> EmptyDb]
Corrupt == [st |-> "corrupt", db |-> EmptyDb]
Unreadable == [st |-> "unreadable", db |-> EmptyDb]
FileOf(db) == [st |-> "ok", db |-> db]

Exists(f) == f.st # "absent"

\* Results of calls
Returned(db) == [st |-> "ok", db |-> db]
Raised == [st |-> "error", db |-> EmptyDb]
NoResult == [st |-> "none", db |-> EmptyDb]

\* The databases SpecStore saves: a one-vendor database per generation n
GenDb(n) ==
    [o \in {<<"a", "a">>} |->
        [v \in {<<"c", "c">>} |->
            [f \in {"vendor_name", "overall_control_score"} |->
                IF f = "vendor_name" THEN "cc" ELSE 100 * n]]]

StoreDbs == {EmptyDb} \cup {GenDb(n) : n \in 1..MaxGen}

---------------------------------------------------------------------------
(* load_vendor_db                                                          *)

\* load_vendor_db as it would be with the final raise dropped: an unusable
\* store is silently treated as empty.
load_vendor_db_silent_empty(p, b) ==
    IF p.st = "ok" THEN Returned(p.db)
    ELSE IF p.st = "corrupt" /\ b.st = "ok" THEN Returned(b.db)
    ELSE Returned(EmptyDb)

\* utils.py 55-97.  A missing primary is a fresh install and gives {} without
\* looking at the backup; a primary that json.loads rejects falls back to the
\* backup, and raises RuntimeError when the backup is missing or fails in any
\* way; any other failure of the primary raises RuntimeError at once.
load_vendor_db(p, b) ==
    IF ~Exists(p) THEN Returned(EmptyDb)
    ELSE IF p.st = "ok" THEN Returned(p.db)
    ELSE IF p.st = "corrupt"
         THEN IF Exists(b) /\ b.st = "ok" THEN Returned(b.db) ELSE Raised
    ELSE Raised

---------------------------------------------------------------------------
(* save_vendor_db, step by step                                            *)

\* utils.py 115-121: VENDOR_DB_PATH.replace(backup_path) when the primary
\* exists.  A failed rename is caught and logged, and the save goes on.
BackupStep(p, b, renameOk) ==
    IF Exists(p) /\ renameOk
    THEN [primary |-> Absent, backup |-> p]
    ELSE [primary |-> p, backup |-> b]

\* utils.py 126: write_text opens the file for writing, which creates or
\* truncates it: until the content is written and flushed the file holds a
\* strict prefix of a JSON object, which json.loads rejects.
OpenStep(p) == Corrupt

\* utils.py 126: the content reaches the file
WriteStep(db) == FileOf(db)

\* utils.py 99-133 as one call.  f is the step that fails: "none", "backup"
\* (rename raises), "open" (write_text fails before truncating), "write"
\* (write_text fails after truncating).  Gives the files and the result.
save_vendor_db(p, b, db, f) ==
    LET s1 == BackupStep(p, b, f # "backup")
    IN  IF f = "open"
        THEN [primary |-> s1.primary, backup |-> s1.backup, res |-> "error"]
        ELSE IF f = "write"
        THEN [primary |-> OpenStep(s1.primary), backup |-> s1.backup, res |-> "error"]
        ELSE [primary |-> WriteStep(db), backup |-> s1.backup, res |-> "ok"]

---------------------------------------------------------------------------
(* SpecStore: one process, saves and loads, crashes between steps          *)

StoreInit ==
    /\ primary = Absent
    /\ backup = Absent
    /\ pc = "idle"
    /\ arg = EmptyDb
    /\ before = Absent
    /\ fault = "none"
    /\ saveRes = "none"
    /\ lastSaved = NoResult
    /\ loaded = NoResult

\* utils.py 55: a workflow calls load_vendor_db
Load ==
    /\ pc = "idle"
    /\ loaded' = load_vendor_db(primary, backup)
    /\ UNCHANGED <<primary, backup, pc, arg, before, fault, saveRes, lastSaved>>
    /\ UNCHANGED <<clientVars, flowVars, mainVars, calcVars>>

\* utils.py 99-112: a workflow calls save_vendor_db(db)
SaveBegin ==
    /\ pc = "idle"
    /\ \E d \in StoreDbs : arg' = d
    /\ before' = primary
    /\ fault' = "none"
    /\ saveRes' = "none"
    /\ loaded' = NoResult
    /\ pc' = "backup"
    /\ UNCHANGED <<primary, backup, lastSaved>>
    /\ UNCHANGED <<clientVars, flowVars, mainVars, calcVars>>

\* utils.py 115-121
SaveBackup ==
    /\ pc = "backup"
    /\ \E renameOk \in BOOLEAN :
        LET s == BackupStep(primary, backup, renameOk)
        IN  /\ primary' = s.primary
            /\ backup' = s.backup
            /\ fault' = IF Exists(primary) /\ ~renameOk THEN "backup" ELSE fault
    /\ pc' = "open"
    /\ UNCHANGED <<arg, before, saveRes, lastSaved, loaded>>
    /\ UNCHANGED <<clientVars, flowVars, mainVars, calcVars>>

\* utils.py 124-126: opening the primary for writing; failure raises
\* RuntimeError (utils.py 131-133)
SaveOpen ==
    /\ pc = "open"
    /\ \E ok \in BOOLEAN :
        IF ok
        THEN /\ primary' = OpenStep(primary)
             /\ pc' = "write"
             /\ UNCHANGED <<fault, saveRes>>
        ELSE /\ pc' = "idle"
             /\ fault' = "open"
             /\ saveRes' = "error"
             /\ UNCHANGED primary
    /\ UNCHANGED <<backup, arg, before, lastSaved, loaded>>
    /\ UNCHANGED <<clientVars, flowVars, mainVars, calcVars>>

\* utils.py 126: part of the text reaches the disk before the rest.  The
\* text is UTF-8 with ensure_ascii=False (utils.py 125), so a prefix either
\* decodes and fails in json.loads, or ends inside a multi-byte character and
\* fails in read_text.
SaveFlushPart ==
    /\ pc = "write"
    /\ \E f \in {Corrupt, Unreadable} : primary' = f
    /\ UNCHANGED <<backup, pc, arg, before, fault, saveRes, lastSaved, loaded>>
    /\ UNCHANGED <<clientVars, flowVars, mainVars, calcVars>>

\* utils.py 126-129: the content is written and the call returns; a failed
\* write raises RuntimeError (utils.py 131-133) and leaves the truncated file
SaveWrite ==
    /\ pc = "write"
    /\ \E ok \in BOOLEAN :
        IF ok
        THEN /\ primary' = WriteStep(arg)
             /\ saveRes' = "ok"
             /\ lastSaved' = Returned(arg)
             /\ UNCHANGED fault
        ELSE /\ fault' = "write"
             /\ saveRes' = "error"
             /\ UNCHANGED <<primary, lastSaved>>
    /\ pc' = "idle"
    /\ UNCHANGED <<backup, arg, before, loaded>>
    /\ UNCHANGED <<clientVars, flowVars, mainVars, calcVars>>

\* The process is killed inside save_vendor_db (power loss, kill -9) and the
\* program is started again: the files stay as the last completed step left them.
Crash ==
    /\ pc \in {"backup", "open", "write"}
    /\ pc' = "idle"
    /\ fault' = "crash"
    /\ saveRes' = "killed"
    /\ UNCHANGED <<primary, backup, arg, before, lastSaved, loaded>>
    /\ UNCHANGED <<clientVars, flowVars, mainVars, calcVars>>

StoreNext ==
    Load \/ SaveBegin \/ SaveBackup \/ SaveOpen \/ SaveFlushPart \/ SaveWrite \/ Crash

---------------------------------------------------------------------------
(* Names, validation and the history log                                   *)

\* Operator-typed names, as sequences of characters
N_aa == <<"a", "a">>
N_aa_bb == <<"a", "a", " ", "b", "b">>
N_x == <<"x">>
N_cc == <<"c", "c">>
N_bb_cc == <<"b", "b", "_", "c", "c">>

\* The (organisation, vendor) pairs the workflows are run with: an ordinary
\* pair, two pairs whose history file names coincide, and an organisation
\* name shorter than validate_organization_name accepts.
FlowKeys ==
    {<<N_aa, N_cc>>, <<N_aa, N_bb_cc>>, <<N_aa_bb, N_cc>>, <<N_x, N_cc>>}

\* validators.py 26-31: the dangerous patterns over the characters used
\* here: "..", and the characters < > : " | ? *
DangerousChars == {"<", ">", ":", "\"", "|", "?", "*"}

HasDangerousPattern(n) ==
    \/ \E i \in 1..Len(n) : n[i] \in DangerousChars
    \/ \E i \in 1..(Len(n) - 1) : n[i] = "." /\ n[i + 1] = "."

\* validators.py 33-64: TRUE when validate_organization_name returns,
\* FALSE when it raises ValidationError
validate_organization_name(n) ==
    /\ Len(n) # 0
    /\ Len(n) >= 2
    /\ Len(n) <= 100
    /\ ~HasDangerousPattern(n)

\* validators.py 66-97
validate_vendor_name(n) ==
    /\ Len(n) # 0
    /\ Len(n) >= 2
    /\ Len(n) <= 100
    /\ ~HasDangerousPattern(n)

\* utils.py 171-172: name.replace(" ", "_")
ReplaceSpaces(n) == [i \in 1..Len(n) |-> IF n[i] = " " THEN "_" ELSE n[i]]

\* validators.py 192-227: TRUE when sanitize_filename returns; the text it
\* returns is then the text it was given, because the characters it would
\* remove are the ones it has just rejected
sanitize_filename(n) ==
    /\ Len(n) # 0
    /\ ~HasDangerousPattern(n)
    /\ Len(n) <= 255

\* utils.py 170-175: history/<org>_<vendor>_<ts>.json.  now_iso (utils.py
\* 29-30) has a fixed width and a resolution of one second, so two paths
\* are the same file exactly when their stems and their seconds agree.
hist_path(org, vendor, t) ==
    [stem |-> ReplaceSpaces(org) \o <<"_">> \o ReplaceSpaces(vendor), ts |-> t]

\* Pathlib write_text: create the file or replace its content
WriteFile(h, path, rec) ==
    [f \in DOMAIN h \cup {path} |-> IF f = path THEN rec ELSE h[f]]

\* utils.py 153-188: the history log afterwards, and whether the call
\* returned ("ok") or raised RuntimeError ("error")
snapshot_history(h, org, vendor, rec, t) ==
    IF ~validate_organization_name(org) \/ ~validate_vendor_name(vendor)
    THEN [history |-> h, res |-> "error"]
    ELSE IF ~sanitize_filename(ReplaceSpaces(org))
            \/ ~sanitize_filename(ReplaceSpaces(vendor))
    THEN [history |-> h, res |-> "error"]
    ELSE [history |-> WriteFile(h, hist_path(org, vendor, t), rec), res |-> "ok"]

---------------------------------------------------------------------------
(* Vendor records and the two-level database                               *)

\* No record: db[org].get(vendor) is None
NoRec == <<>>

HasVendor(db, org, vendor) == org \in DOMAIN db /\ vendor \in DOMAIN db[org]

GetRec(db, org, vendor) == IF HasVendor(db, org, vendor) THEN db[org][vendor] ELSE NoRec

\* `if org not in db: db[org] = {}` followed by `db[org][vendor] = rec`
PutRec(db, org, vendor, rec) ==
    LET old == IF org \in DOMAIN db THEN db[org] ELSE <<>>
        new == [v \in DOMAIN old \cup {vendor} |-> IF v = vendor THEN rec ELSE old[v]]
    IN  [o \in DOMAIN db \cup {org} |-> IF o = org THEN new ELSE db[o]]

\* dict.update, and record[field] = value
Update(rec, s) ==
    [f \in DOMAIN rec \cup DOMAIN s |-> IF f \in DOMAIN s THEN s[f] ELSE rec[f]]

\* The classification with the upper threshold at 6
classify_risk_bucket_high_from_6(likelihood, impact) ==
    LET mapping(x) == IF x = "low" THEN 1 ELSE IF x = "medium" THEN 2
                      ELSE IF x = "high" THEN 3 ELSE 2
        product == mapping(likelihood) * mapping(impact)
    IN  IF product >= 6 THEN "high" ELSE IF product >= 4 THEN "medium" ELSE "low"

\* utils.py 37-51
classify_risk_bucket(likelihood, impact) ==
    LET mapping(x) == IF x = "low" THEN 1 ELSE IF x = "medium" THEN 2
                      ELSE IF x = "high" THEN 3 ELSE 2
        product == mapping(likelihood) * mapping(impact)
    IN  IF product >= 7 THEN "high" ELSE IF product >= 4 THEN "medium" ELSE "low"

\* utils.py 195-196
RequiredFields ==
    {"org_id", "vendor_name", "service", "business_owner",
     "overall_control_score", "likelihood", "impact"}

\* `record[f] in ("", None)`: names are "" when empty, texts when "", and a
\* number is never blank
IsBlank(f, v) ==
    IF f \in {"org_id", "vendor_name", "organisation"} THEN v = <<>>
    ELSE IF f \in {"service", "business_owner", "likelihood", "impact", "regulator"}
    THEN v = ""
    ELSE FALSE

\* utils.py 190-198: the set of missing fields
validate_vendor_record(record) ==
    {f \in RequiredFields : f \notin DOMAIN record \/ IsBlank(f, record[f])}

---------------------------------------------------------------------------
(* DDQ scoring                                                             *)

\* tprm_ddq.py 9-70: portfolio weight and question sub-weights of each
\* domain, in the configured order (every sub-weight is 1.0)
TPRM_DOMAINS ==
    << [name |-> "Data Protection", weight |-> 25, questions |-> <<1, 1, 1>>],
       [name |-> "Compliance", weight |-> 15, questions |-> <<1, 1>>],
       [name |-> "Access Control", weight |-> 15, questions |-> <<1, 1>>],
       [name |-> "Incident Response", weight |-> 15, questions |-> <<1, 1, 1>>],
       [name |-> "Business Continuity", weight |-> 10, questions |-> <<1, 1>>],
       [name |-> "Subprocessor Management", weight |-> 10, questions |-> <<1, 1>>],
       [name |-> "Governance & Documentation", weight |-> 10, questions |-> <<1, 1>>] >>

RECURSIVE SumSeq(_)
SumSeq(q) == IF q = <<>> THEN 0 ELSE Head(q) + SumSeq(Tail(q))

\* round(num / den, 2) in hundredths: the nearest hundredth, a tie going to
\* the even one
Round2(num, den) ==
    LET n == 100 * num
        q == n \div den
        r == n % den
    IN  IF 2 * r < den THEN q
        ELSE IF 2 * r > den THEN q + 1
        ELSE IF q % 2 = 0 THEN q ELSE q + 1

\* The plain mean of the ratings, the sub-weights left out
score_domain_unweighted(domain, answers) ==
    LET n == Len(domain.questions)
    IN  [avg |-> Round2(SumSeq(answers), n),
         details |-> [i \in 1..n |->
                        [question |-> i, score |-> answers[i],
                         sub_weight |-> domain.questions[i]]]]

\* tprm_ddq.py 90-107: answers[i] is what ask_score returned for question i
score_domain(domain, answers) ==
    LET n == Len(domain.questions)
        weighted_sum == SumSeq([i \in 1..n |-> answers[i] * domain.questions[i]])
        total_w == SumSeq(domain.questions)
    IN  [avg |-> Round2(weighted_sum, total_w),
         details |-> [i \in 1..n |->
                        [question |-> i, score |-> answers[i],
                         sub_weight |-> domain.questions[i]]]]

\* round(x, 2) of the float x the code holds where the exact value is
\* num / den: the nearest hundredth. When num / den is exactly halfway
\* between two hundredths the float carries the rounding error of the sums
\* that built it and lies on one side: `above` says which
round_float(num, den, above) ==
    LET n == 100 * num
        q == n \div den
        r == n % den
    IN  IF 2 * r < den THEN q
        ELSE IF 2 * r > den THEN q + 1
        ELSE IF above THEN q + 1 ELSE q

\* The composite taken from the weighted score after its rounding
compute_total_weighted_score_chained(domain_results, above) ==
    LET n == Len(domain_results)
        s == SumSeq([i \in 1..n |-> domain_results[i].score * domain_results[i].weight_pct])
        w == round_float(s, 100 * 100, above)
    IN  [total_weighted_score |-> w, composite_pct_score |-> 20 * w]

\* The weights taken as fractions without the division by 100
compute_total_weighted_score_unscaled(domain_results, above) ==
    LET n == Len(domain_results)
        s == SumSeq([i \in 1..n |-> domain_results[i].score * domain_results[i].weight_pct])
    IN  [total_weighted_score |-> round_float(s, 100, above),
         composite_pct_score |-> round_float(s, 5 * 100, above)]

\* tprm_ddq.py 109-118, scores in hundredths: sum(score * weight / 100) and
\* sum(score / 5 * weight), each rounded to 2 decimals on its own
compute_total_weighted_score_float(domain_results, above) ==
    LET n == Len(domain_results)
        s == SumSeq([i \in 1..n |-> domain_results[i].score * domain_results[i].weight_pct])
    IN  [total_weighted_score |-> round_float(s, 100 * 100, above),
         composite_pct_score |-> round_float(s, 5 * 100, above)]

\* tprm_ddq.py 109-118 for results whose sums are whole hundredths (every
\* answer sheet of the workflows below): no halfway point, no side
compute_total_weighted_score(domain_results) ==
    compute_total_weighted_score_float(domain_results, FALSE)

\* The comparison chain with the boundaries left out
classify_risk_level_strict(num, den) ==
    IF num > 4 * den THEN "Low"
    ELSE IF num > 3 * den THEN "Medium"
    ELSE "High"

\* tprm_ddq.py 120-126 for the score num/den: the literals 4.0 and 3.0,
\* compared with >= and without rounding
classify_risk_level_of(num, den) ==
    IF num >= 4 * den THEN "Low"
    ELSE IF num >= 3 * den THEN "Medium"
    ELSE "High"

\* tprm_ddq.py 120-126, score in hundredths
classify_risk_level(total_weighted_score) ==
    classify_risk_level_of(total_weighted_score, 100)

\* tprm_ddq.py 423-431: sheet[d][i] is the answer to question i of domain d
DomainResults(sheet) ==
    [d \in 1..Len(TPRM_DOMAINS) |->
        LET sd == score_domain(TPRM_DOMAINS[d], sheet[d])
        IN  [name |-> TPRM_DOMAINS[d].name,
             weight_pct |-> TPRM_DOMAINS[d].weight,
             score |-> sd.avg,
             questions |-> sd.details]]

---------------------------------------------------------------------------
(* SpecFlow: the workflows, one action per run                             *)

\* What the operator types at the free-text prompts: nothing, or something
Texts == {"", "t"}

\* str.lower over the level words used here
Lower(x) ==
    IF x = "High" THEN "high" ELSE IF x = "Medium" THEN "medium"
    ELSE IF x = "Low" THEN "low" ELSE x

\* Likelihood / impact as typed
TypedLevels == {"low", "High"}

\* The outcomes of save_vendor_db a workflow run can meet
SaveFaults == {"none", "write"}

\* A DDQ answer sheet: the same rating r for every question
Sheet(r) ==
    [d \in 1..Len(TPRM_DOMAINS) |-> [i \in 1..Len(TPRM_DOMAINS[d].questions) |-> r]]

DdqSheets == {Sheet(2), Sheet(4)}

\* What a workflow run did: the workflow, the key it was given, how it ended
\* ("ok", "error" for an exception, "return" for an early return), how the
\* model call ended, the record as scored in memory, and one entry per record
\* that a successful save_vendor_db committed: the record stored before, the
\* record committed, and whether snapshot_history returned for it.  It also
\* keeps the primary file as it was when the run began, the step of
\* save_vendor_db that failed in the run, and the sheet of an import.
NoLast ==
    [op |-> "none", org |-> <<>>, vendor |-> <<>>, res |-> "none",
     model |-> "none", computed |-> NoRec, commits |-> <<>>,
     stored |-> Absent, fault |-> "none", rows |-> <<>>]

Ended(op, org, vendor, res, model, computed, commits) ==
    [op |-> op, org |-> org, vendor |-> vendor, res |-> res,
     model |-> model, computed |-> computed, commits |-> commits,
     stored |-> primary, fault |-> "none", rows |-> <<>>]

Commit(org, vendor, prev, rec, snapped) ==
    [org |-> org, vendor |-> vendor, prev |-> prev, rec |-> rec, snapped |-> snapped]

FlowInit ==
    /\ history = <<>>
    /\ now = 0
    /\ nops = 0
    /\ last = NoLast
    /\ snaps = 0

\* The frame of every workflow action
FlowFrame ==
    /\ nops' = nops + 1
    /\ UNCHANGED <<now, pc, arg, before, fault, saveRes, lastSaved, loaded, clientVars>>
    /\ UNCHANGED <<mainVars, calcVars>>

\* load_vendor_db raised at the top of a workflow: nothing is touched
LoadFailed(op, org, vendor) ==
    /\ last' = [Ended(op, org, vendor, "error", "none", NoRec, <<>>) EXCEPT !.fault = "load"]
    /\ UNCHANGED <<primary, backup, history, snaps>>

\* An early return or an exception before save_vendor_db
NotSaved(op, org, vendor, res, model, computed) ==
    /\ last' = Ended(op, org, vendor, res, model, computed, <<>>)
    /\ UNCHANGED <<primary, backup, history, snaps>>

\* `db[org][vendor] = rec; save_vendor_db(db); snapshot_history(org, vendor,
\* rec)`: the tail of every single-record mutator (tprm_ddq.py 301-303 and
\* 491-493, assessments.py 79-81, acceptances.py 110-114, contract_manager.py
\* 260-262).  A save that raises ends the run before the snapshot.
SaveThenSnapshot(op, db, org, vendor, prev, rec, model, f) ==
    LET sv == save_vendor_db(primary, backup, PutRec(db, org, vendor, rec), f)
        sn == snapshot_history(history, org, vendor, rec, now)
    IN  /\ primary' = sv.primary
        /\ backup' = sv.backup
        /\ history' = IF sv.res = "ok" THEN sn.history ELSE history
        /\ snaps' = IF sv.res = "ok" /\ sn.res = "ok" THEN snaps + 1 ELSE snaps
        /\ last' = [Ended(op, org, vendor,
                          IF sv.res = "ok" /\ sn.res = "ok" THEN "ok" ELSE "error",
                          model, rec,
                          IF sv.res = "ok"
                          THEN <<Commit(org, vendor, prev, rec, sn.res = "ok")>>
                          ELSE <<>>)
                    EXCEPT !.fault = f]

\* tprm_ddq.py 422-493: score, classify, build the record, save, snapshot.
\* db holds the in-memory record for (org, vendor); prev is the stored one.
DdqScoreAndSave(db, org, vendor, prev, service_desc, owner, regulator, likelihood, impact, assessor, sheet, f) ==
    LET domain_results == DomainResults(sheet)
        tot == compute_total_weighted_score(domain_results)
        risk_level == classify_risk_level(tot.total_weighted_score)
        record == Update(db[org][vendor],
            [assessment_date |-> now, assessed_at |-> now, assessed_by |-> assessor,
             service |-> service_desc, business_owner |-> owner,
             regulator |-> regulator, likelihood |-> likelihood, impact |-> impact,
             domains |-> domain_results,
             weighted_score |-> tot.total_weighted_score,
             risk_level |-> risk_level,
             composite_pct_score |-> tot.composite_pct_score,
             evidence_notes |-> [d \in {TPRM_DOMAINS[i].name : i \in 1..Len(TPRM_DOMAINS)} |-> ""],
             approvals |-> <<>>])
    IN  SaveThenSnapshot("ddq", db, org, vendor, prev, record, "none", f)

\* Where an exception or an operator interrupt (Ctrl-C / end of input at a
\* prompt) can end the assessment before the record is built: in the
\* questionnaire (tprm_ddq.py 422-430), at the evidence notes (444-449) or
\* at the approvals (451-467)
DdqStops == {"none", "questionnaire", "evidence", "approvals"}

\* A variant that writes the in-memory db when the run is cut short
DdqAssess_commit_while_computing(db, org, vendor, prev, service_desc, owner, regulator, likelihood, impact, assessor, sheet, f, stop) ==
    IF stop # "none"
    THEN /\ primary' = FileOf(db)
         /\ backup' = primary
         /\ last' = Ended("ddq", org, vendor, "interrupted", "none", NoRec, <<>>)
         /\ UNCHANGED <<history, snaps>>
    ELSE DdqScoreAndSave(db, org, vendor, prev, service_desc, owner, regulator,
                         likelihood, impact, assessor, sheet, f)

\* tprm_ddq.py 422-493 with the ways out of it: an exception raised before
\* line 492 leaves run() with only the in-memory db changed
DdqAssess(db, org, vendor, prev, service_desc, owner, regulator, likelihood, impact, assessor, sheet, f, stop) ==
    LET tot == compute_total_weighted_score(DomainResults(sheet))
        scored == [weighted_score |-> tot.total_weighted_score,
                   composite_pct_score |-> tot.composite_pct_score,
                   risk_level |-> classify_risk_level(tot.total_weighted_score)]
    IN  IF stop # "none"
        THEN NotSaved("ddq", org, vendor, "interrupted", "none",
                      IF stop = "questionnaire" THEN NoRec ELSE scored)
        ELSE DdqScoreAndSave(db, org, vendor, prev, service_desc, owner, regulator,
                             likelihood, impact, assessor, sheet, f)

\* tprm_ddq.py 311-319, 401-493: mode "1", a new assessment
tprm_ddq_run_new ==
    /\ nops < MaxOps
    /\ \E k \in FlowKeys, service_desc \in Texts, typed \in TypedLevels,
          sheet \in DdqSheets, f \in SaveFaults, stop \in DdqStops :
        LET org == k[1]
            vendor == k[2]
            ld == load_vendor_db(primary, backup)
            prev == GetRec(ld.db, org, vendor)
            rec0 == IF HasVendor(ld.db, org, vendor) THEN prev
                    ELSE [organisation |-> org, vendor_name |-> vendor, created |-> now]
        IN  IF ld.st = "error" THEN LoadFailed("ddq", org, vendor)
            ELSE DdqAssess(PutRec(ld.db, org, vendor, rec0), org, vendor, prev,
                           service_desc, "o", "t", Lower(typed), "high", "me",
                           sheet, f, stop)
    /\ FlowFrame

\* tprm_ddq.py 267-295: the prompts of _edit_existing_record; blank keeps
edit_existing_record(record, new_service, new_like) ==
    LET r1 == IF new_service # "" THEN Update(record, [service |-> new_service]) ELSE record
    IN  IF new_like # "" THEN Update(r1, [likelihood |-> new_like]) ELSE r1

GetField(rec, f, default) == IF f \in DOMAIN rec THEN rec[f] ELSE default

\* tprm_ddq.py 343-394 and 267-306: mode "2", an existing vendor picked from
\* the lists, edited, and either saved as it is or scored again
tprm_ddq_run_existing ==
    /\ nops < MaxOps
    /\ LET ld == load_vendor_db(primary, backup)
       IN  /\ ld.st = "ok"
           /\ \E org \in DOMAIN ld.db :
                \E vendor \in DOMAIN ld.db[org] :
                  \E new_service \in {"", "u"}, new_like \in {"", "High"},
                     rerun \in BOOLEAN, f \in SaveFaults, stop \in DdqStops :
                    LET prev == ld.db[org][vendor]
                        record == edit_existing_record(prev, new_service, new_like)
                        db == PutRec(ld.db, org, vendor, record)
                    IN  IF rerun
                        THEN DdqAssess(db, org, vendor, prev,
                                 GetField(record, "service", ""),
                                 GetField(record, "business_owner", ""),
                                 GetField(record, "regulator", ""),
                                 Lower(GetField(record, "likelihood", "")),
                                 Lower(GetField(record, "impact", "")),
                                 "me", Sheet(4), f, stop)
                        ELSE SaveThenSnapshot("edit", db, org, vendor, prev, record,
                                              "none", f)
    /\ FlowFrame

\* assessments.py 36: the five control names of the quick assessment
QuickDomains ==
    {"Governance", "Cybersecurity", "Data Protection", "Resilience", "Compliance"}

\* assessments.py 7-81: the quick assessment; r is the rating typed for
\* every control, modelOk whether ask_model returned
assessments_run ==
    /\ nops < MaxOps
    /\ \E k \in FlowKeys, service \in Texts, r \in {2, 5},
          modelOk \in BOOLEAN, f \in SaveFaults :
        LET org_id == k[1]
            vendor_name == k[2]
            ld == load_vendor_db(primary, backup)
            prev == GetRec(ld.db, org_id, vendor_name)
            v0 == IF HasVendor(ld.db, org_id, vendor_name) THEN prev
                  ELSE [vendor_name |-> vendor_name, org_id |-> org_id, created |-> now]
            likelihood == Lower("High")
            impact == Lower("low")
            vendor == Update(v0,
                [service |-> service, business_owner |-> "o", assessment_date |-> now,
                 control_scores |-> [d \in QuickDomains |-> r],
                 overall_control_score |-> Round2(5 * r, 5),
                 likelihood |-> likelihood, impact |-> impact,
                 risk_bucket |-> classify_risk_bucket(likelihood, impact)])
        IN  IF ld.st = "error" THEN LoadFailed("quick", org_id, vendor_name)
            ELSE IF ~modelOk
            THEN NotSaved("quick", org_id, vendor_name, "error", "failed", vendor)
            ELSE SaveThenSnapshot("quick", ld.db, org_id, vendor_name, prev,
                                  Update(vendor, [ai_analysis |-> "text"]), "ok", f)
    /\ FlowFrame

\* acceptances.py 49-54: the fields the prompt reads with record[...]
AcceptancePromptFields ==
    {"service", "business_owner", "overall_control_score", "likelihood", "impact"}

\* acceptances.py 6-114: the risk-acceptance memo
acceptances_run ==
    /\ nops < MaxOps
    /\ \E k \in FlowKeys, modelOk \in BOOLEAN, f \in SaveFaults :
        LET org_id == k[1]
            vendor_name == k[2]
            ld == load_vendor_db(primary, backup)
            vr == GetRec(ld.db, org_id, vendor_name)
            entry == [risk_desc |-> "t", justification |-> "t", owner |-> "t",
                      expiry |-> "t", mitigation_plan |-> "t",
                      generated_at |-> now, memo_text |-> "text"]
            old == IF "risk_acceptances" \in DOMAIN vr THEN vr["risk_acceptances"] ELSE <<>>
        IN  IF ld.st = "error" THEN LoadFailed("accept", org_id, vendor_name)
            ELSE IF ld.db = EmptyDb \/ ~HasVendor(ld.db, org_id, vendor_name)
            THEN NotSaved("accept", org_id, vendor_name, "return", "none", NoRec)
            ELSE IF "org_id" \notin DOMAIN vr
            THEN NotSaved("accept", org_id, vendor_name, "error", "none", NoRec)
            ELSE IF vr["org_id"] # org_id
            THEN NotSaved("accept", org_id, vendor_name, "return", "none", NoRec)
            ELSE IF ~(AcceptancePromptFields \subseteq DOMAIN vr)
            THEN NotSaved("accept", org_id, vendor_name, "error", "none", NoRec)
            ELSE IF ~modelOk
            THEN NotSaved("accept", org_id, vendor_name, "error", "failed", NoRec)
            ELSE SaveThenSnapshot("accept", ld.db, org_id, vendor_name, vr,
                     Update(vr, [risk_acceptances |-> Append(old, entry)]), "ok", f)
    /\ FlowFrame

\* contract_manager.py 15-138 with every optional prompt skipped
add_contract_to_vendor(vendor_record) ==
    Update(vendor_record,
        [contract |-> [auto_renewal |-> FALSE, created_at |-> now, last_updated |-> now]])

\* contract_manager.py 208-265, option 1; the exceptions of save and
\* snapshot are caught and printed by the workflow itself (403-408)
contract_manager_run ==
    /\ nops < MaxOps
    /\ \E k \in FlowKeys, f \in SaveFaults :
        LET org_id == k[1]
            vendor_name == k[2]
            ld == load_vendor_db(primary, backup)
            vendor_record == GetRec(ld.db, org_id, vendor_name)
        IN  IF ld.st = "error" THEN LoadFailed("contract", org_id, vendor_name)
            ELSE IF ld.db = EmptyDb \/ ~HasVendor(ld.db, org_id, vendor_name)
            THEN NotSaved("contract", org_id, vendor_name, "return", "none", NoRec)
            ELSE SaveThenSnapshot("contract", ld.db, org_id, vendor_name, vendor_record,
                                  add_contract_to_vendor(vendor_record), "none", f)
    /\ FlowFrame

\* importer.py 44-50: the control names of an imported row
ImportDomains ==
    {"Access Control / Identity Management", "Encryption & Key Management",
     "Monitoring & Logging", "Business Continuity / DR / Resilience",
     "Privacy & Regulatory Compliance"}

\* A sheet row after str(...).strip(): the key, the service text, the rating
\* r found in every control cell, and whether int() accepts those cells
Row(k, service, r, intOk) ==
    [org_id |-> k[1], vendor_name |-> k[2], service |-> service,
     likelihood |-> "high", impact |-> "low", r |-> r, intOk |-> intOk]

\* The rows sheets are made of: for the ordinary key a good row, a row with
\* a blank service cell, a row with an empty control cell and a row with a
\* control score of 7; a good row for every other key
ImportRows ==
    {Row(<<N_aa, N_cc>>, "", 3, TRUE), Row(<<N_aa, N_cc>>, "t", 3, FALSE),
     Row(<<N_aa, N_cc>>, "t", 7, TRUE)}
    \cup {Row(k, "t", 3, TRUE) : k \in FlowKeys}

ImportSheets == UNION {[1..n -> ImportRows] : n \in 1..MaxRows}

\* importer.py 44-73: the record built from a row
ImportRecord(row) ==
    [org_id |-> row.org_id, vendor_name |-> row.vendor_name,
     service |-> row.service, regulator |-> "t", business_owner |-> "o",
     likelihood |-> Lower(row.likelihood), impact |-> Lower(row.impact),
     risk_bucket |-> classify_risk_bucket(Lower(row.likelihood), Lower(row.impact)),
     control_scores |-> [d \in ImportDomains |-> row.r],
     overall_control_score |-> Round2(5 * row.r, 5),
     assessed_at |-> now, assessed_by |-> "import",
     open_actions |-> <<>>, risk_acceptances |-> <<>>]

\* importer.py 35-83: the loop over the rows.  int() of a cell that is not a
\* number raises and ends the run; a record with missing fields is skipped;
\* otherwise the record goes into the in-memory db and is snapshotted, and a
\* snapshot that raises ends the run.  db0 is the db as loaded.
RECURSIVE ImportLoop(_, _, _, _, _)
ImportLoop(rows, db0, db, h, imported) ==
    IF rows = <<>>
    THEN [db |-> db, history |-> h, res |-> "ok", imported |-> imported]
    ELSE LET row == Head(rows)
             record == ImportRecord(row)
             sn == snapshot_history(h, row.org_id, row.vendor_name, record, now)
         IN  IF ~row.intOk
             THEN [db |-> db, history |-> h, res |-> "error", imported |-> imported]
             ELSE IF validate_vendor_record(record) # {}
             THEN ImportLoop(Tail(rows), db0, db, h, imported)
             ELSE IF sn.res = "error"
             THEN [db |-> PutRec(db, row.org_id, row.vendor_name, record),
                   history |-> h, res |-> "error", imported |-> imported]
             ELSE ImportLoop(Tail(rows), db0,
                             PutRec(db, row.org_id, row.vendor_name, record),
                             sn.history,
                             Append(imported,
                                    Commit(row.org_id, row.vendor_name,
                                           GetRec(db0, row.org_id, row.vendor_name),
                                           record, TRUE)))

\* The entries whose record is the one the db holds at the end: a later row
\* with the same key replaces an earlier one in memory
RECURSIVE LastPerKey(_)
LastPerKey(es) ==
    IF es = <<>> THEN <<>>
    ELSE LET e == Head(es)
             rest == Tail(es)
         IN  IF \E i \in 1..Len(rest) : rest[i].org = e.org /\ rest[i].vendor = e.vendor
             THEN LastPerKey(rest)
             ELSE <<e>> \o LastPerKey(rest)

\* importer.py 6-86: the bulk import
importer_run ==
    /\ nops < MaxOps
    /\ \E rows \in ImportSheets, f \in SaveFaults :
        LET ld == load_vendor_db(primary, backup)
            lp == ImportLoop(rows, ld.db, ld.db, history, <<>>)
            sv == save_vendor_db(primary, backup, lp.db, f)
        IN  IF ld.st = "error"
            THEN LoadFailed("import", <<>>, <<>>)
            ELSE IF lp.res = "error"
            THEN /\ history' = lp.history
                 /\ snaps' = snaps + Len(lp.imported)
                 /\ last' = [Ended("import", <<>>, <<>>, "error", "none", NoRec, <<>>)
                             EXCEPT !.rows = rows]
                 /\ UNCHANGED <<primary, backup>>
            ELSE /\ primary' = sv.primary
                 /\ backup' = sv.backup
                 /\ history' = lp.history
                 /\ snaps' = snaps + Len(lp.imported)
                 /\ last' = [Ended("import", <<>>, <<>>, sv.res, "none", NoRec,
                                   IF sv.res = "ok" THEN LastPerKey(lp.imported) ELSE <<>>)
                             EXCEPT !.rows = rows, !.fault = f]
    /\ FlowFrame

\* A second passes
Tick ==
    /\ now < MaxClock
    /\ now' = now + 1
    /\ UNCHANGED <<storeVars, clientVars, history, nops, last, snaps>>
    /\ UNCHANGED <<mainVars, calcVars>>

FlowNext ==
    \/ tprm_ddq_run_new
    \/ tprm_ddq_run_existing
    \/ assessments_run
    \/ acceptances_run
    \/ contract_manager_run
    \/ importer_run
    \/ Tick

---------------------------------------------------------------------------
(* OllamaClient.generate                                                   *)

\* api_client.py 78-79: the defaults ask_model uses
max_retries == 3
initial_retry_delay == 2

\* What one requests.post of generate can meet: a 200 with text, a 200 whose
\* "response" is empty, a timeout, a refused connection, or an HTTP error
\* status (raise_for_status raises HTTPError for 400..599).
HttpErrorStatuses == {400, 404, 429, 499, 500, 503}

PostOutcomes ==
    {[k |-> "text", s |-> 200], [k |-> "empty", s |-> 200],
     [k |-> "timeout", s |-> 0], [k |-> "connection", s |-> 0]}
    \cup {[k |-> "http", s |-> c] : c \in HttpErrorStatuses}

\* api_client.py 143, 148: `e.response` used as a condition.  The HTTPError
\* raised by raise_for_status carries the Response, and the truth value of a
\* requests Response is its `ok` attribute: True only for a status below 400.
ResponseTruth(status) == status < 400

\* api_client.py 148: `if e.response and 400 <= e.response.status_code < 500`
BreaksOn(status) == ResponseTruth(status) /\ 400 <= status /\ status < 500

ClientInit ==
    /\ connection_verified = FALSE
    /\ gpc = "idle"
    /\ attempt = 0
    /\ retry_delay = 0
    /\ outcomes = <<>>
    /\ sleeps = <<>>
    /\ gres = "none"

\* api_client.py 97-110: the call starts; verify_connection (36-72) runs
\* once per client and raises ConnectionError when the server is not there
GenCall ==
    /\ gpc = "idle"
    /\ outcomes' = <<>>
    /\ sleeps' = <<>>
    /\ \E up \in BOOLEAN :
        IF connection_verified \/ up
        THEN /\ connection_verified' = TRUE
             /\ attempt' = 1
             /\ retry_delay' = initial_retry_delay
             /\ gres' = "none"
             /\ gpc' = "post"
        ELSE /\ gres' = "ConnectionError"
             /\ UNCHANGED <<connection_verified, attempt, retry_delay, gpc>>
    /\ UNCHANGED <<storeVars, flowVars, mainVars, calcVars>>

\* api_client.py 111-153: one POST and the handling of what it met
GenPost ==
    /\ gpc = "post"
    /\ \E o \in PostOutcomes :
        /\ outcomes' = Append(outcomes, o)
        /\ IF o.k = "text"
           THEN gres' = "ok" /\ gpc' = "idle"
           ELSE IF o.k = "http" /\ BreaksOn(o.s)
           THEN gpc' = "raise" /\ UNCHANGED gres
           ELSE gpc' = "backoff" /\ UNCHANGED gres
    /\ UNCHANGED <<connection_verified, attempt, retry_delay, sleeps>>
    /\ UNCHANGED <<storeVars, flowVars, mainVars, calcVars>>

\* api_client.py 155-159 and the loop header 110: sleep and double the delay
\* unless this was the last attempt
GenBackoff ==
    /\ gpc = "backoff"
    /\ IF attempt < max_retries
       THEN /\ sleeps' = Append(sleeps, retry_delay)
            /\ retry_delay' = 2 * retry_delay
            /\ attempt' = attempt + 1
            /\ gpc' = "post"
       ELSE /\ gpc' = "raise"
            /\ UNCHANGED <<sleeps, retry_delay, attempt>>
    /\ UNCHANGED <<connection_verified, outcomes, gres>>
    /\ UNCHANGED <<storeVars, flowVars, mainVars, calcVars>>

\* api_client.py 161-167: raise APIError
GenRaise ==
    /\ gpc = "raise"
    /\ gres' = "APIError"
    /\ gpc' = "idle"
    /\ UNCHANGED <<connection_verified, attempt, retry_delay, outcomes, sleeps>>
    /\ UNCHANGED <<storeVars, flowVars, mainVars, calcVars>>

\* reports.py 8-14: the ask_model of the portfolio report (reports.py 113):
\* one requests.post without a timeout, raise_for_status, and the stripped
\* "response" returned whatever it holds.  The exception of requests leaves
\* the function as it is.
reports_ask_model ==
    /\ gpc = "idle"
    /\ \E o \in {x \in PostOutcomes : x.k # "timeout"} :
        /\ outcomes' = <<o>>
        /\ gres' = IF o.k \in {"text", "empty"} THEN "ok"
                   ELSE IF o.k = "connection" THEN "ConnectionError"
                   ELSE "HTTPError"
    /\ sleeps' = <<>>
    /\ UNCHANGED <<connection_verified, gpc, attempt, retry_delay>>
    /\ UNCHANGED <<storeVars, flowVars, mainVars, calcVars>>

ClientNext == GenCall \/ GenPost \/ GenBackoff \/ GenRaise \/ reports_ask_model

---------------------------------------------------------------------------
(* main: start-up checks and the menu loop                                 *)

\* config.py 46-47: the defaults, and the values the environment can set
DefaultConfig == [low |-> 400, medium |-> 300]

Configs ==
    {DefaultConfig, [low |-> 450, medium |-> 350],
     [low |-> 300, medium |-> 300], [low |-> 300, medium |-> 400]}

\* validate_config with the comparison weakened to <
validate_config_allows_equal(c) == ~(c.low < c.medium)

\* config.py 61-75: TRUE when no ValueError is raised (OLLAMA_URL is set)
validate_config(c) == ~(c.low <= c.medium)

\* The store files a starting process can find
BootDisks ==
    {[primary |-> Absent, backup |-> Absent],
     [primary |-> Corrupt, backup |-> Corrupt]}

\* The process in its menu loop with the default configuration
MainInit ==
    /\ mpc = "menu"
    /\ cfg = DefaultConfig
    /\ exit_code = -1
    /\ boot = [primary |-> Absent, backup |-> Absent]

\* main.py 105-132, 134-148: ensure_directories, validate_config with
\* sys.exit(1) on ValueError, verify_connection with sys.exit(1) on failure
main_start ==
    /\ mpc = "start"
    /\ \E up \in BOOLEAN :
        IF ~validate_config(cfg)
        THEN mpc' = "exited" /\ exit_code' = 1 /\ UNCHANGED connection_verified
        ELSE IF ~up
        THEN mpc' = "exited" /\ exit_code' = 1 /\ UNCHANGED connection_verified
        ELSE mpc' = "menu" /\ connection_verified' = TRUE /\ UNCHANGED exit_code
    /\ UNCHANGED <<cfg, boot, gpc, attempt, retry_delay, outcomes, sleeps, gres>>
    /\ UNCHANGED <<storeVars, flowVars, calcVars>>

\* main.py 153-261: one pass of the loop with option 1, 5 or 8; the handler
\* runs inside try/except Exception, which reports the error and goes on
main_menu_run ==
    /\ mpc = "menu"
    /\ \/ tprm_ddq_run_new
       \/ tprm_ddq_run_existing
       \/ acceptances_run
       \/ importer_run

\* main.py 256-259: option 10
main_exit ==
    /\ mpc = "menu"
    /\ mpc' = "exited"
    /\ exit_code' = 0
    /\ UNCHANGED <<cfg, boot, storeVars, clientVars, flowVars, calcVars>>

MainNext == main_start \/ main_menu_run \/ main_exit

---------------------------------------------------------------------------
(* The pure classifiers applied to inputs                                  *)

\* tprm_ddq.py 72-88: answers are 1..5, so weighted scores lie in 1.00..5.00
MinScore == 100
MaxScore == 500

\* Weighted scores as num/den: every hundredth of the scale, and the
\* thousandths next to the thresholds
ScoreInputs ==
    {<<n, 100>> : n \in MinScore..MaxScore}
    \cup {<<n, 1000>> : n \in {2999, 3000, 3001, 3999, 4000, 4001}}

Levels == {"low", "medium", "high"}

\* What can reach classify_risk_bucket: the levels, the same words in other
\* letter cases (tprm_ddq.py 283-295 stores what was typed), other words
BucketInputs == Levels \cup {"High", "HIGH", "Low", "urgent", ""}

NoCalc == [fn |-> "none", a |-> 0, b |-> 0, out |-> ""]

CalcInit == calc = NoCalc

apply_classify_risk_level ==
    /\ \E x \in ScoreInputs :
        calc' = [fn |-> "classify_risk_level", a |-> x[1], b |-> x[2],
                 out |-> classify_risk_level_of(x[1], x[2])]
    /\ UNCHANGED <<storeVars, clientVars, flowVars, mainVars>>

apply_classify_risk_bucket ==
    /\ \E l \in BucketInputs, i \in BucketInputs :
        calc' = [fn |-> "classify_risk_bucket", a |-> l, b |-> i,
                 out |-> classify_risk_bucket(l, i)]
    /\ UNCHANGED <<storeVars, clientVars, flowVars, mainVars>>

\* Text as a sequence of characters, for the functions that transform it
W_high == <<"h", "i", "g", "h">>
W_medium == <<"m", "e", "d", "i", "u", "m">>
W_low == <<"l", "o", "w">>

UpperCase ==
    [c \in {"h", "i", "g", "m", "e", "d", "u", "l", "o", "w"} |->
        CASE c = "h" -> "H" [] c = "i" -> "I" [] c = "g" -> "G" [] c = "m" -> "M"
          [] c = "e" -> "E" [] c = "d" -> "D" [] c = "u" -> "U" [] c = "l" -> "L"
          [] c = "o" -> "O" [] c = "w" -> "W"]

\* str.lower and str.strip
LowerChar(c) ==
    IF \E l \in DOMAIN UpperCase : UpperCase[l] = c
    THEN CHOOSE l \in DOMAIN UpperCase : UpperCase[l] = c
    ELSE c

str_lower(t) == [i \in 1..Len(t) |-> LowerChar(t[i])]

RECURSIVE str_lstrip(_)
str_lstrip(t) == IF t # <<>> /\ Head(t) = " " THEN str_lstrip(Tail(t)) ELSE t

RECURSIVE str_rstrip(_)
str_rstrip(t) ==
    IF t # <<>> /\ t[Len(t)] = " " THEN str_rstrip(SubSeq(t, 1, Len(t) - 1)) ELSE t

str_strip(t) == str_rstrip(str_lstrip(t))

\* The labels of classify_risk_level as text
LabelText(label) ==
    IF label = "High" THEN <<"H", "i", "g", "h">>
    ELSE IF label = "Medium" THEN <<"M", "e", "d", "i", "u", "m">>
    ELSE <<"L", "o", "w">>

\* A risk_level argument: None, or a str
NoneValue == [isNone |-> TRUE, text |-> <<>>]
Str(t) == [isNone |-> FALSE, text |-> t]

\* What record.get("risk_level") can hand over (risk_treatment.py 27): the
\* labels classify_risk_level writes, the same words in other cases, padded
\* or misspelled words, the empty string, None
TreatmentInputs ==
    {NoneValue, Str(<<>>), Str(W_high), Str(W_medium), Str(W_low),
     Str(LabelText("High")), Str(LabelText("Medium")), Str(LabelText("Low")),
     Str(<<"H", "I", "G", "H">>), Str(<<"M", "E", "D", "I", "U", "M">>),
     Str(<<"h", "i", "h", "g">>), Str(<<"h", "i", "g">>), Str(<<"m", "e", "d">>),
     Str(<<" ", "h", "i", "g", "h", " ">>), Str(<<" ">>)}

\* classify_treatment_action with the lower() left out
classify_treatment_action_case_sensitive(risk_level) ==
    LET lvl == str_strip(IF risk_level.isNone THEN <<>> ELSE risk_level.text)
    IN  IF lvl = W_high THEN "Mitigate"
        ELSE IF lvl = W_medium THEN "Transfer"
        ELSE "Accept"

\* risk_treatment.py 6-21: the action (the rationale text goes with it)
classify_treatment_action(risk_level) ==
    LET lvl == str_lower(str_strip(IF risk_level.isNone \/ risk_level.text = <<>>
                                   THEN <<>> ELSE risk_level.text))
    IN  IF lvl = W_high THEN "Mitigate"
        ELSE IF lvl = W_medium THEN "Transfer"
        ELSE "Accept"

apply_classify_treatment_action ==
    /\ \E x \in TreatmentInputs :
        calc' = [fn |-> "classify_treatment_action", a |-> x, b |-> 0,
                 out |-> classify_treatment_action(x)]
    /\ UNCHANGED <<storeVars, clientVars, flowVars, mainVars>>

\* Domains handed to score_domain: the configured ones, and definitions with
\* unequal sub-weights (their quotients are halfway between two hundredths
\* only at eighths, which a float holds exactly and round() sends to the
\* even hundredth)
ScoredDomains ==
    {TPRM_DOMAINS[d] : d \in 1..Len(TPRM_DOMAINS)}
    \cup {[name |-> "Weighted", weight |-> 40, questions |-> <<1, 3>>],
          [name |-> "Weighted", weight |-> 60, questions |-> <<3, 5>>]}

\* tprm_ddq.py 72-88: ask_score returns integers 1..5 only
Ratings == 1..5

apply_score_domain ==
    /\ \E domain \in ScoredDomains :
        \E answers \in [1..Len(domain.questions) -> Ratings] :
            calc' = [fn |-> "score_domain", a |-> domain, b |-> answers,
                     out |-> score_domain(domain, answers)]
    /\ UNCHANGED <<storeVars, clientVars, flowVars, mainVars>>

\* Portfolio weights of a domain list: the configured ones, other lists that
\* sum to 100, and lists that do not
ConfiguredWeights == [d \in 1..Len(TPRM_DOMAINS) |-> TPRM_DOMAINS[d].weight]
WeightLists == {ConfiguredWeights, <<50, 50>>, <<60, 40>>, <<100>>, <<50, 40>>, <<60, 60>>}

\* Domain averages in hundredths, as score_domain returns them
DomainScores == {100, 150, 233, 500}

\* The averages mixed over the 7 configured domains
ConfiguredScores == {100, 150}

ResultsOver(w, scores) ==
    {[d \in 1..Len(w) |-> [score |-> x[d], weight_pct |-> w[d]]] :
        x \in [1..Len(w) -> scores]}

\* Domain results handed to compute_total_weighted_score: mixes of domain
\* averages over each weight list, and the results of the answer sheets
\* with one rating throughout
DomainResultInputs ==
    UNION {ResultsOver(w, IF w = ConfiguredWeights THEN ConfiguredScores ELSE DomainScores) :
                w \in WeightLists}
    \cup {DomainResults(Sheet(r)) : r \in Ratings}

apply_compute_total_weighted_score ==
    /\ \E domain_results \in DomainResultInputs, above \in BOOLEAN :
        calc' = [fn |-> "compute_total_weighted_score", a |-> domain_results, b |-> above,
                 out |-> compute_total_weighted_score_float(domain_results, above)]
    /\ UNCHANGED <<storeVars, clientVars, flowVars, mainVars>>

CalcNext ==
    \/ apply_score_domain
    \/ apply_compute_total_weighted_score
    \/ apply_classify_risk_level
    \/ apply_classify_risk_bucket
    \/ apply_classify_treatment_action

---------------------------------------------------------------------------
(* Specifications                                                          *)

Init == StoreInit /\ ClientInit /\ FlowInit /\ MainInit /\ CalcInit

\* A process about to start: the configuration and the store files are what
\* the environment holds
BootInit ==
    /\ \E d \in BootDisks :
        /\ primary = d.primary
        /\ backup = d.backup
        /\ boot = d
    /\ pc = "idle" /\ arg = EmptyDb /\ before = Absent /\ fault = "none"
    /\ saveRes = "none" /\ lastSaved = NoResult /\ loaded = NoResult
    /\ ClientInit
    /\ FlowInit
    /\ CalcInit
    /\ mpc = "start"
    /\ cfg \in Configs
    /\ exit_code = -1

SpecStore == Init /\ [][StoreNext]_vars

SpecClient == Init /\ [][ClientNext]_vars

SpecFlow == Init /\ [][FlowNext]_vars

SpecMain == BootInit /\ [][MainNext]_vars

SpecCalc == Init /\ [][CalcNext]_vars

---------------------------------------------------------------------------
(* Claims on the store files (checked under SpecStore)                     *)

\* C1: at every point of save_vendor_db, crashes and the logged rename
\* failure included, the database of the last save that returned normally is
\* complete in the primary file or in the .backup file.
C1_LastGoodOnDisk ==
    lastSaved.st = "ok" =>
        \/ primary = FileOf(lastSaved.db)
        \/ backup = FileOf(lastSaved.db)

\* C2: a load_vendor_db that follows an interrupted save_vendor_db returns
\* the database of the last save that returned normally.
C2_LoadAfterInterruptedSave ==
    (loaded.st # "none" /\ saveRes = "killed" /\ lastSaved.st = "ok") =>
        loaded = Returned(lastSaved.db)

C4_FailedSaveIntact ==
    (pc = "idle" /\ fault \in {"backup", "open", "write"} /\ before.st = "ok") =>
        /\ saveRes = "error"
        /\ primary = before

\* C16: when a save_vendor_db call has returned normally and the primary
\* file held a database A as the call began, the primary file holds the
\* database B just saved and the .backup file holds A.
C16_BackupIsPreviousGeneration ==
    (pc = "idle" /\ saveRes = "ok" /\ before.st = "ok") =>
        /\ primary = FileOf(lastSaved.db)
        /\ backup = before

---------------------------------------------------------------------------
(* Claims on OllamaClient.generate (checked under SpecClient)              *)

Is4xx(o) == o.k = "http" /\ 400 <= o.s /\ o.s < 500

\* C10: an attempt that ends with an HTTP status in [400, 500) is the last
\* POST of the call, no back-off sleep follows it, and the call fails.
C10_NoRetryAfter4xx ==
    \A i \in 1..Len(outcomes) :
        Is4xx(outcomes[i]) =>
            /\ Len(outcomes) = i
            /\ Len(sleeps) < i
            /\ gres # "ok"

Retryable(o) == o.k \in {"timeout", "connection", "empty"}

RECURSIVE Pow2(_)
Pow2(n) == IF n = 0 THEN 1 ELSE 2 * Pow2(n - 1)

\* C11: every generation request that made a POST is retried on connection
\* failure, timeout or empty response: at most max_retries POSTs, the k-th
\* sleep is retry_delay*2^(k-1), no sleep after the last attempt, a call that
\* returned ended on its first attempt with text, and a call whose attempts
\* all failed retryably made max_retries of them and raised one APIError.
C11_RetriedWithBackoff ==
    /\ Len(outcomes) <= max_retries
    /\ \A k \in 1..Len(sleeps) : sleeps[k] = initial_retry_delay * Pow2(k - 1)
    /\ (gpc = "idle" /\ Len(outcomes) >= 1) =>
          /\ Len(sleeps) = Len(outcomes) - 1
          /\ gres = "ok" =>
                /\ outcomes[Len(outcomes)].k = "text"
                /\ \A i \in 1..(Len(outcomes) - 1) : outcomes[i].k # "text"
          /\ (\A i \in 1..Len(outcomes) : Retryable(outcomes[i])) =>
                /\ gres = "APIError"
                /\ Len(outcomes) = max_retries

---------------------------------------------------------------------------
(* Claims on the workflows (checked under SpecFlow)                        *)

\* A row every check accepts: integer control cells within 1..5, all
\* required fields filled, names that pass name validation
WellFormedRow(row) ==
    /\ row.intOk
    /\ row.r \in 1..5
    /\ row.service # ""
    /\ validate_organization_name(row.org_id)
    /\ validate_vendor_name(row.vendor_name)

\* C12: a bulk import whose save did not fail commits every well-formed row
\* of the sheet (the last one of each key), whatever malformed rows stand
\* before or after it.
C12_MalformedRowDoesNotAbort ==
    (last.op = "import" /\ last.fault = "none" /\ last.stored.st \in {"absent", "ok"}) =>
        \A i \in 1..Len(last.rows) :
            LET row == last.rows[i]
                rec == GetRec(primary.db, row.org_id, row.vendor_name)
            IN  (/\ WellFormedRow(row)
                 /\ \A j \in (i + 1)..Len(last.rows) :
                        ~(/\ last.rows[j].org_id = row.org_id
                          /\ last.rows[j].vendor_name = row.vendor_name))
                => /\ primary.st = "ok"
                   /\ rec # NoRec
                   /\ rec["assessed_by"] = "import"
                   /\ rec["service"] = row.service
                   /\ rec["overall_control_score"] = 100 * row.r

\* C13: a workflow that returned early on an unknown organisation or vendor
\* key, or that ended in an error for an organisation or vendor name that
\* fails name validation, has left the primary file as it found it.
C13_RejectedInputLeavesStore ==
    /\ last.res = "return" => primary = last.stored
    /\ (/\ last.res = "error"
        /\ last.fault = "none"
        /\ last.org # <<>>
        /\ ~validate_organization_name(last.org) \/ ~validate_vendor_name(last.vendor))
       => primary = last.stored

\* C14: compute-then-commit in the DDQ assessment: a run cut short before
\* the record was built leaves both store files as they were, and a record
\* the assessment committed carries the domain scores, the weighted and
\* composite scores computed from them and the risk level of that score.
C14_ComputeThenCommit ==
    /\ (last.op = "ddq" /\ last.res = "interrupted") =>
            /\ primary = last.stored
            /\ last.commits = <<>>
    /\ last.op = "ddq" =>
            \A i \in 1..Len(last.commits) :
                LET rec == last.commits[i].rec
                    tot == compute_total_weighted_score(rec["domains"])
                IN  /\ {"domains", "weighted_score", "composite_pct_score", "risk_level"}
                        \subseteq DOMAIN rec
                    /\ rec["weighted_score"] = tot.total_weighted_score
                    /\ rec["composite_pct_score"] = tot.composite_pct_score
                    /\ rec["risk_level"] = classify_risk_level(rec["weighted_score"])

\* C14 witness: an assessment of a vendor already in the store, cut short
\* after the scores were computed, with the stored database untouched
C14_InterruptedRescore ==
    /\ last.op = "ddq"
    /\ last.res = "interrupted"
    /\ last.computed # NoRec
    /\ last.stored.st = "ok"
    /\ HasVendor(last.stored.db, last.org, last.vendor)
    /\ primary = last.stored

\* C5: snapshot_history never overwrites a snapshot file: every call that
\* returned has left a file of its own in the history log.
C5_SnapshotsNeverOverwritten == Cardinality(DOMAIN history) = snaps

\* C6: every changed record that a save committed has a history snapshot
\* equal to it when the workflow ends.
C6_CommitHasSnapshot ==
    \A i \in 1..Len(last.commits) :
        LET c == last.commits[i]
        IN  c.rec # c.prev =>
                /\ c.snapped
                /\ \E f \in DOMAIN history : history[f] = c.rec

HasValue(rec, f) == f \in DOMAIN rec /\ ~IsBlank(f, rec[f])

\* C7: no record is committed with a required field missing (organisation
\* id, vendor name, service, business owner, overall or weighted score,
\* likelihood, impact).
C7_CommittedRecordsValid ==
    \A i \in 1..Len(last.commits) :
        LET rec == last.commits[i].rec
        IN  /\ HasValue(rec, "org_id") \/ HasValue(rec, "organisation")
            /\ HasValue(rec, "vendor_name")
            /\ HasValue(rec, "service")
            /\ HasValue(rec, "business_owner")
            /\ HasValue(rec, "overall_control_score") \/ HasValue(rec, "weighted_score")
            /\ HasValue(rec, "likelihood")
            /\ HasValue(rec, "impact")

IsPrefix(a, b) == Len(a) <= Len(b) /\ \A i \in 1..Len(a) : b[i] = a[i]

\* C8: a mutator applied to an existing record deletes no field, and keeps
\* the recorded risk acceptances, open actions, contract and creation time.
C8_MonotonicInData ==
    \A i \in 1..Len(last.commits) :
        LET c == last.commits[i]
        IN  c.prev # NoRec =>
                /\ DOMAIN c.prev \subseteq DOMAIN c.rec
                /\ \A f \in {"risk_acceptances", "open_actions"} \cap DOMAIN c.prev :
                       f \in DOMAIN c.rec /\ IsPrefix(c.prev[f], c.rec[f])
                /\ "created" \in DOMAIN c.prev =>
                       "created" \in DOMAIN c.rec /\ c.rec["created"] = c.prev["created"]
                /\ ("contract" \in DOMAIN c.prev /\ last.op # "contract") =>
                       "contract" \in DOMAIN c.rec /\ c.rec["contract"] = c.prev["contract"]

\* C9: when the model call of a scoring workflow fails, the scores computed
\* before the call are in the vendor store when the workflow ends.
C9_ScoresSurviveModelFailure ==
    (last.model = "failed" /\ last.computed # NoRec) =>
        LET st == load_vendor_db(primary, backup)
            rec == GetRec(st.db, last.org, last.vendor)
        IN  /\ st.st = "ok"
            /\ "overall_control_score" \in DOMAIN rec
            /\ rec["overall_control_score"] = last.computed["overall_control_score"]
            /\ rec["control_scores"] = last.computed["control_scores"]

---------------------------------------------------------------------------
(* Claims on main (checked under SpecMain)                                 *)

\* C15: once load_vendor_db has raised because the primary file and its
\* backup are both unreadable, the process has exited: it is not back in the
\* menu loop offering operations.
C15_UnreadableStoreIsFatal ==
    last.fault = "load" => mpc = "exited"

\* The level the configured thresholds give a weighted score
ConfiguredLevel(s, c) ==
    IF s >= c.low THEN "Low" ELSE IF s >= c.medium THEN "Medium" ELSE "High"

\* C18: with a valid configuration, the risk level of every record the DDQ
\* assessment commits is the level the configured thresholds give its
\* weighted score.
C18_ThresholdsAreConfigured ==
    (validate_config(cfg) /\ last.op = "ddq") =>
        \A i \in 1..Len(last.commits) :
            LET rec == last.commits[i].rec
            IN  rec["risk_level"] = ConfiguredLevel(rec["weighted_score"], cfg)

\* C19: when RISK_THRESHOLD_LOW <= RISK_THRESHOLD_MEDIUM the process never
\* reaches the menu loop, runs no workflow, leaves the store files and the
\* history log as it found them, and exits with status 1.
C19_InvertedThresholdsAreFatal ==
    cfg.low <= cfg.medium =>
        /\ mpc \in {"start", "exited"}
        /\ mpc = "exited" => exit_code = 1
        /\ nops = 0
        /\ last = NoLast
        /\ primary = boot.primary
        /\ backup = boot.backup
        /\ history = <<>>

\* C19 witness: the process has exited with status 1 on equal thresholds
C19_ExitedOnEqualThresholds ==
    /\ cfg.low = cfg.medium
    /\ mpc = "exited"
    /\ exit_code = 1
    /\ nops = 0

---------------------------------------------------------------------------
(* Claims on the classifiers (checked under SpecCalc)                      *)

\* C17: classify_risk_level gives "Low" exactly for scores >= 4.0, "Medium"
\* exactly for 3.0 <= score < 4.0 and "High" exactly for scores < 3.0; 4.0
\* is Low, 3.0 is Medium, 2.999 and 2.99 are High.
C17_RiskLevelThresholds ==
    calc.fn = "classify_risk_level" =>
        /\ calc.out \in {"Low", "Medium", "High"}
        /\ calc.out = "Low" <=> calc.a >= 4 * calc.b
        /\ calc.out = "Medium" <=> (3 * calc.b <= calc.a /\ calc.a < 4 * calc.b)
        /\ calc.out = "High" <=> calc.a < 3 * calc.b
        /\ (calc.a = 400 /\ calc.b = 100) => calc.out = "Low"
        /\ (calc.a = 300 /\ calc.b = 100) => calc.out = "Medium"
        /\ (calc.a = 2999 /\ calc.b = 1000) => calc.out = "High"
        /\ (calc.a = 299 /\ calc.b = 100) => calc.out = "High"

\* C17 witness: 3.0 has been classified, as Medium
C17_ThreeIsMedium ==
    /\ calc.fn = "classify_risk_level"
    /\ calc.a = 300
    /\ calc.b = 100
    /\ calc.out = "Medium"

Ordinal(x) == IF x = "low" THEN 1 ELSE IF x = "medium" THEN 2 ELSE 3

\* C20: for likelihood and impact in {low, medium, high} classify_risk_bucket
\* gives "high" for a product >= 7, "medium" for 4 <= product < 7 and "low"
\* below 4, and the same result with its arguments exchanged.
C20_RiskBucketMatrix ==
    (calc.fn = "classify_risk_bucket" /\ calc.a \in Levels /\ calc.b \in Levels) =>
        LET product == Ordinal(calc.a) * Ordinal(calc.b)
        IN  /\ product >= 7 => calc.out = "high"
            /\ (4 <= product /\ product < 7) => calc.out = "medium"
            /\ product < 4 => calc.out = "low"
            /\ classify_risk_bucket(calc.b, calc.a) = calc.out
            /\ (calc.a = "high" /\ calc.b = "high") => calc.out = "high"
            /\ (calc.a = "high" /\ calc.b = "medium") => calc.out = "medium"
            /\ (calc.a = "medium" /\ calc.b = "medium") => calc.out = "medium"
            /\ (calc.a = "low" /\ calc.b = "high") => calc.out = "low"
            /\ (calc.a = "low" /\ calc.b = "low") => calc.out = "low"

\* C20 witness: high likelihood and medium impact, product 6, gave medium
C20_HighMediumIsMedium ==
    /\ calc.fn = "classify_risk_bucket"
    /\ calc.a = "high"
    /\ calc.b = "medium"
    /\ calc.out = "medium"

\* The level a word names when letter case is ignored; "medium" for a word
\* that names none
FoldLevel(x) ==
    IF x \in {"low", "Low"} THEN "low"
    ELSE IF x \in {"high", "High", "HIGH"} THEN "high"
    ELSE "medium"

\* C21: classify_risk_bucket is total and case-insensitive: the result is
\* the class of the product of the levels its arguments name with letter
\* case ignored, an unrecognised word counting as medium.
C21_RiskBucketIgnoresCase ==
    calc.fn = "classify_risk_bucket" =>
        LET product == Ordinal(FoldLevel(calc.a)) * Ordinal(FoldLevel(calc.b))
        IN  calc.out = IF product >= 7 THEN "high"
                       ELSE IF product >= 4 THEN "medium" ELSE "low"

\* t is the word w in some letter case
IsWord(t, w) ==
    /\ Len(t) = Len(w)
    /\ \A i \in 1..Len(w) : t[i] = w[i] \/ t[i] = UpperCase[w[i]]

Padded(t) == t # <<>> /\ (Head(t) = " " \/ t[Len(t)] = " ")

---------------------------------------------------------------------------
(* Claims about the scoring functions                                      *)

WeightSum(domain_results) ==
    SumSeq([d \in 1..Len(domain_results) |-> domain_results[d].weight_pct])

ScoreSum(domain_results) ==
    SumSeq([d \in 1..Len(domain_results) |->
                domain_results[d].score * domain_results[d].weight_pct])

Abs(x) == IF x < 0 THEN 0 - x ELSE x

\* x (hundredths) is a nearest hundredth of num / den
NearestHundredth(x, num, den) == 2 * Abs(100 * num - x * den) <= den

\* Every domain of the configured list scores r
AllScore(domain_results, r) ==
    /\ Len(domain_results) = Len(TPRM_DOMAINS)
    /\ \A d \in 1..Len(domain_results) :
            /\ domain_results[d].weight_pct = TPRM_DOMAINS[d].weight
            /\ domain_results[d].score = 100 * r

\* C23: compute_total_weighted_score returns the sum of score * weight / 100
\* rounded to two decimals and the sum of score / 5 * weight rounded to two
\* decimals, each rounded from the unrounded sum; when every one of the 7
\* configured domains scores the same r in 1..5 the results are r.00 and 20 r.
C23_TotalAndComposite ==
    calc.fn = "compute_total_weighted_score" =>
        /\ NearestHundredth(calc.out.total_weighted_score, ScoreSum(calc.a), 100 * 100)
        /\ NearestHundredth(calc.out.composite_pct_score, ScoreSum(calc.a), 5 * 100)
        /\ \A r \in Ratings :
                AllScore(calc.a, r) =>
                    /\ calc.out.total_weighted_score = 100 * r
                    /\ calc.out.composite_pct_score = 2000 * r

\* C23 witness: every configured domain scores 4, giving 4.00 and 80.00
C23_AllFour ==
    /\ calc.fn = "compute_total_weighted_score"
    /\ AllScore(calc.a, 4)
    /\ calc.out.total_weighted_score = 400
    /\ calc.out.composite_pct_score = 8000

\* C24: for domain results whose weights sum to 100 and whose scores are
\* two-decimal values in [1,5], the weighted score lies in [1,5], the
\* composite in [0,100], and the composite differs from weighted / 5 * 100 by
\* at most 20 * 0.005 + 0.005.
C24_ScoreRanges ==
    (/\ calc.fn = "compute_total_weighted_score"
     /\ WeightSum(calc.a) = 100
     /\ \A d \in 1..Len(calc.a) : calc.a[d].score \in MinScore..MaxScore) =>
        /\ calc.out.total_weighted_score \in MinScore..MaxScore
        /\ calc.out.composite_pct_score \in 0..(100 * 100)
        /\ 10 * Abs(calc.out.composite_pct_score - 20 * calc.out.total_weighted_score)
                <= 105

\* C24 witness: six domains at 1.00 and one at 1.50 sum to 1.075, halfway
\* between two hundredths; the weighted score is 1.08 and the composite 21.50
C24_HalfwaySum ==
    /\ calc.fn = "compute_total_weighted_score"
    /\ WeightSum(calc.a) = 100
    /\ ScoreSum(calc.a) = 10750
    /\ calc.out.total_weighted_score = 108
    /\ calc.out.composite_pct_score = 2150

\* C25: for a domain with positive sub-weights and ratings in 1..5,
\* score_domain returns sum(rating * sub_weight) / sum(sub_weight) rounded
\* to two decimals, a value in [1,5], and one (question, score, sub_weight)
\* entry per question in the order of the definition.
C25_DomainAverage ==
    calc.fn = "score_domain" =>
        LET n == Len(calc.a.questions)
            weighted_sum == SumSeq([i \in 1..n |-> calc.b[i] * calc.a.questions[i]])
        IN  /\ NearestHundredth(calc.out.avg, weighted_sum, SumSeq(calc.a.questions))
            /\ calc.out.avg \in MinScore..MaxScore
            /\ Len(calc.out.details) = n
            /\ \A i \in 1..n :
                    /\ calc.out.details[i].question = i
                    /\ calc.out.details[i].score = calc.b[i]
                    /\ calc.out.details[i].sub_weight = calc.a.questions[i]

\* C25 witness: ratings 1 and 2 under sub-weights 1 and 3 average 1.75
C25_UnequalSubWeights ==
    /\ calc.fn = "score_domain"
    /\ calc.a.questions = <<1, 3>>
    /\ calc.b = <<1, 2>>
    /\ calc.out.avg = 175

\* C26: a domain list whose weights do not sum to 100 is refused with a
\* configuration error, and no weighted score is computed from it.
C26_WeightSumChecked ==
    (calc.fn = "compute_total_weighted_score" /\ WeightSum(calc.a) # 100) =>
        "total_weighted_score" \notin DOMAIN calc.out

---------------------------------------------------------------------------
(* Claims on what the workflows persist (checked under SpecFlow)           *)

\* The records of the vendor store on disk
StoredRecords ==
    UNION {{primary.db[o][v] : v \in DOMAIN primary.db[o]} : o \in DOMAIN primary.db}

\* C27: after any sequence of workflows every per-question score and every
\* control score in the persisted store is an integer in 1..5.
C27_PersistedScoresInRange ==
    \A rec \in StoredRecords :
        /\ "control_scores" \in DOMAIN rec =>
               \A d \in DOMAIN rec["control_scores"] : rec["control_scores"][d] \in Ratings
        /\ "domains" \in DOMAIN rec =>
               \A d \in 1..Len(rec["domains"]) :
                   \A i \in 1..Len(rec["domains"][d].questions) :
                       rec["domains"][d].questions[i].score \in Ratings

\* C28: the risk-acceptance workflow, run on the key of a record that the
\* DDQ assessment created and scored, with the model answering and the save
\* succeeding, commits the record with one more risk-acceptance entry and
\* the same weighted score and risk level.
C28_ScoredToAccepted ==
    LET prev == GetRec(last.stored.db, last.org, last.vendor)
    IN  (/\ last.op = "accept"
         /\ last.model # "failed"
         /\ last.fault = "none"
         /\ "organisation" \in DOMAIN prev
         /\ "weighted_score" \in DOMAIN prev) =>
            /\ Len(last.commits) = 1
            /\ "risk_acceptances" \in DOMAIN last.commits[1].rec
            /\ Len(last.commits[1].rec["risk_acceptances"]) =
                    1 + (IF "risk_acceptances" \in DOMAIN prev
                         THEN Len(prev["risk_acceptances"]) ELSE 0)
            /\ last.commits[1].rec["weighted_score"] = prev["weighted_score"]
            /\ last.commits[1].rec["risk_level"] = prev["risk_level"]

\* C29: every persisted record that carries a risk_bucket has the bucket of
\* its stored likelihood and impact.
C29_StoredBucketIsCurrent ==
    \A rec \in StoredRecords :
        "risk_bucket" \in DOMAIN rec =>
            rec["risk_bucket"] = classify_risk_bucket(rec["likelihood"], rec["impact"])

\* C30: a workflow run writes a history snapshot only of a record that a
\* successful save of the same run committed to the vendor store.
C30_SnapshotOnlyAfterSave ==
    [][\A f \in DOMAIN history' :
            (f \notin DOMAIN history \/ history'[f] # history[f]) =>
                \E i \in 1..Len(last'.commits) : last'.commits[i].rec = history'[f]]_vars


====
